---- MODULE Spec2Model ----
(***************************************************************************)
(* Model of services/agent/agent.py: one conversational turn of            *)
(* InboxAgent.ask_inbox.  The coroutine is cut at its await points (post,  *)
(* say, sleep, get, publish_data); the code between two awaits is one      *)
(* atomic action.  Text is modelled as a sequence of fragments, a question *)
(* as a sequence of characters, a JSON object as a record with the set of  *)
(* keys it carries.  The data_received handler and update_tts_config are   *)
(* synchronous and form one action, OnData.  Spec is a turn alone, SpecCfg *)
(* the handler alone, SpecTurnCfg a turn with packets handled between its  *)
(* awaits.                                                                 *)
(***************************************************************************)
EXTENDS Integers, Sequences, FiniteSets, TLC

VARIABLES pc, question, events, response, spoken, sayInterrupted,
          attempt, waited, job_res, pubState, pubPayload, published,
          warnings, returned,
          tts_model, tts_voice, tts, rebuilds, infoLogs, cfgWarnings,
          packet, handled, handledAt, dataOutcome

(* the state of one ask_inbox call *)
turnVars == <<pc, question, events, response, spoken, sayInterrupted,
              attempt, waited, job_res, pubState, pubPayload, published,
              warnings, returned>>

(* the agent's speech configuration and the data_received handler *)
cfgVars == <<tts_model, tts_voice, tts, rebuilds, infoLogs, cfgWarnings,
             packet, handled, handledAt, dataOutcome>>

vars == <<turnVars, cfgVars>>

(* ------------------------------ bounds --------------------------------- *)

MaxQLen == 3

MaxPackets == 2

QChars == {" ", "h", "I"}

(* --------------------------- program constants ------------------------- *)

SOURCES_TOPIC == "inbox.sources"

TTS_CONFIG_TOPIC == "inbox.tts.config"

OPENAI_TTS_MODEL == "gpt-4o-mini-tts"

OPENAI_TTS_VOICE == "coral"

SMALL_TALK ==
  { <<"h","i">>,
    <<"h","e","l","l","o">>,
    <<"h","e","y">>,
    <<"g","o","o","d"," ","m","o","r","n","i","n","g">>,
    <<"g","o","o","d"," ","a","f","t","e","r","n","o","o","n">>,
    <<"g","o","o","d"," ","e","v","e","n","i","n","g">>,
    <<"h","o","w"," ","a","r","e"," ","y","o","u">>,
    <<"w","h","a","t","'","s"," ","u","p">>,
    <<"w","h","a","t","s"," ","u","p">>,
    <<"y","o">> }

(* for _ in range(46) *)
MaxAttempts_46 == 45 + 1

MaxAttempts == 45

PollInterval == 2

AskTimeout == 60

GreetingMsg == "Hi! Ask me anything about your inbox, emails, or attachments."

UnreachablePrefix == "I couldn't reach the inbox service: "

UnknownError == "Unknown error"

DefaultAck == "This may take a minute."

NoJobMsg == "I couldn't start the background job."

JobErrorPrefix == "There was an error: "

UnknownJobError == "unknown"

TimeoutMsg == "That is taking longer than expected. Please try again."

NoAnswerMsg == "No answer returned."

(* ------------------------------- text ---------------------------------- *)

IsSpace(c) == c = " "

LowerChar(c) == CASE c = "H" -> "h"
                  [] c = "I" -> "i"
                  [] OTHER -> c

Lower(s) == [i \in 1..Len(s) |-> LowerChar(s[i])]

RECURSIVE LStrip(_)
LStrip(s) == IF s # <<>> /\ IsSpace(Head(s)) THEN LStrip(Tail(s)) ELSE s

RECURSIVE RStrip(_)
RStrip(s) == IF s # <<>> /\ IsSpace(s[Len(s)])
             THEN RStrip(SubSeq(s, 1, Len(s) - 1)) ELSE s

Strip(s) == RStrip(LStrip(s))

IsSmallTalk_NoStrip(q) == Lower(q) \in SMALL_TALK

IsSmallTalk_Prefix(q) ==
  \E t \in SMALL_TALK :
     /\ Len(t) <= Len(Lower(Strip(q)))
     /\ SubSeq(Lower(Strip(q)), 1, Len(t)) = t

IsSmallTalk(q) == Lower(Strip(q)) \in SMALL_TALK

RECURSIVE SeqsUpTo(_, _)
SeqsUpTo(S, n) ==
  IF n = 0 THEN {<<>>}
  ELSE LET shorter == SeqsUpTo(S, n - 1)
       IN  shorter \cup {Append(s, c) : s \in shorter, c \in S}

Questions == SeqsUpTo(QChars, MaxQLen)

(* ------------------------------- JSON ---------------------------------- *)

(* Python's None, as returned by dict.get for a missing key. *)
None == "<None>"

Truthy(v) == v \notin {None, ""}

EmptyObj == [keys |-> {}, status |-> "", jobId |-> "", message |-> "",
             answer |-> "", error |-> "", sources |-> <<>>]

(* dict.get(k) and dict.get(k, default) *)
Get(d, k) == IF k \in d.keys THEN d[k] ELSE None

GetOr(d, k, default) == IF k \in d.keys THEN d[k] ELSE default

(* data.get("sources") or [] *)
SourcesOf(d) == IF "sources" \in d.keys /\ d.sources # <<>> THEN d.sources ELSE <<>>

(* A response body: the raw text and what json() makes of it. *)
ObjBody(text, obj) == [text |-> text, kind |-> "object", obj |-> obj]

ArrayBody == [text |-> "[1]", kind |-> "array", obj |-> EmptyObj]

InvalidBody(text) == [text |-> text, kind |-> "invalid", obj |-> EmptyObj]

AskBodies ==
  { ObjBody("{error}", [EmptyObj EXCEPT !.keys = {"error"}, !.error = "not found"]),
    ObjBody("{message}", [EmptyObj EXCEPT !.keys = {"message"}, !.message = "bad request"]),
    ObjBody("{error,message}",
            [EmptyObj EXCEPT !.keys = {"error", "message"},
                             !.error = "not found", !.message = "bad request"]),
    ObjBody("{error:'',message}",
            [EmptyObj EXCEPT !.keys = {"error", "message"}, !.message = "bad request"]),
    ObjBody("{}", EmptyObj),
    ArrayBody,
    InvalidBody("<html>"),
    InvalidBody(""),
    ObjBody("{answer,sources}",
            [EmptyObj EXCEPT !.keys = {"answer", "sources"},
                             !.answer = "You have 3 unread emails.",
                             !.sources = <<"m1">>]),
    ObjBody("{answer,sources:[]}",
            [EmptyObj EXCEPT !.keys = {"answer", "sources"},
                             !.answer = "You have 3 unread emails."]),
    ObjBody("{answer}",
            [EmptyObj EXCEPT !.keys = {"answer"}, !.answer = "You have 3 unread emails."]),
    ObjBody("{processing,jobId}",
            [EmptyObj EXCEPT !.keys = {"status", "jobId"},
                             !.status = "processing", !.jobId = "j1"]),
    ObjBody("{processing,message,jobId}",
            [EmptyObj EXCEPT !.keys = {"status", "message", "jobId"},
                             !.status = "processing", !.message = "Working on it.",
                             !.jobId = "j1"]),
    ObjBody("{processing}",
            [EmptyObj EXCEPT !.keys = {"status"}, !.status = "processing"]),
    ObjBody("{processing,jobId:''}",
            [EmptyObj EXCEPT !.keys = {"status", "jobId"}, !.status = "processing"]) }

JobBodies ==
  { ObjBody("{pending}", [EmptyObj EXCEPT !.keys = {"status"}, !.status = "pending"]),
    ObjBody("{done,answer,sources}",
            [EmptyObj EXCEPT !.keys = {"status", "answer", "sources"},
                             !.status = "done", !.answer = "Done.",
                             !.sources = <<"m1">>]),
    ObjBody("{done,answer}",
            [EmptyObj EXCEPT !.keys = {"status", "answer"},
                             !.status = "done", !.answer = "Done."]),
    ObjBody("{done}", [EmptyObj EXCEPT !.keys = {"status"}, !.status = "done"]),
    ObjBody("{error,text}",
            [EmptyObj EXCEPT !.keys = {"status", "error"},
                             !.status = "error", !.error = "boom"]),
    ObjBody("{error,text:''}",
            [EmptyObj EXCEPT !.keys = {"status", "error"}, !.status = "error"]),
    ObjBody("{error}", [EmptyObj EXCEPT !.keys = {"status"}, !.status = "error"]),
    ObjBody("{}", EmptyObj),
    ArrayBody,
    InvalidBody("<html>") }

AskStatuses == {200, 400, 404}

PollStatuses == {200, 500}

NoBody == InvalidBody("")

NoResponse == [kind |-> "none", status |-> 0, body |-> NoBody]

(* The request raised (connection error, or the client's timeout elapsed). *)
Failed == [kind |-> "failed", status |-> 0, body |-> NoBody]

Http(s, b) == [kind |-> "http", status |-> s, body |-> b]

AskOutcomes == {Failed} \cup {Http(s, b) : s \in AskStatuses, b \in AskBodies}

PollOutcomes == {Failed} \cup {Http(s, b) : s \in PollStatuses, b \in JobBodies}

(* ------------------- speech configuration, control packets ------------- *)

(* openai.TTS(model=..., voice=..., instructions=...) *)
TtsEngine(model, voice) == [model |-> model, voice |-> voice]

OtherModel == "tts-1"

OtherVoice == "alloy"

ModelValues == {"", OPENAI_TTS_MODEL, OtherModel}

VoiceValues == {"", OPENAI_TTS_VOICE, OtherVoice}

(* packet.data: bytes that are not UTF-8, text that is not JSON, JSON that is
   not an object, or a JSON object with the keys it carries *)
RawPayload(kind) == [kind |-> kind, keys |-> {}, type |-> "", model |-> "", voice |-> ""]

ConfigPayload(keys, type, model, voice) ==
  [kind |-> "object", keys |-> keys,
   type |-> IF "type" \in keys THEN type ELSE "",
   model |-> IF "model" \in keys THEN model ELSE "",
   voice |-> IF "voice" \in keys THEN voice ELSE ""]

Payloads ==
  {RawPayload("not_utf8"), RawPayload("not_json"), RawPayload("json_other")}
  \cup {ConfigPayload(keys, type, model, voice) :
          keys \in SUBSET {"type", "model", "voice"},
          type \in {"tts_config", "sources"},
          model \in ModelValues, voice \in VoiceValues}

Packet(topic, payload) == [topic |-> topic, payload |-> payload]

Packets == {Packet(topic, payload) :
              topic \in {TTS_CONFIG_TOPIC, SOURCES_TOPIC}, payload \in Payloads}

NoPacket == Packet("", RawPayload("none"))

(* ----------------------------- pure helpers ---------------------------- *)

IsErrorStatus_Above400(status) == status > 400

(* line 105 *)
IsErrorStatus(status) == status >= 400

(* a or b, on strings *)
Or(a, b) == IF Truthy(a) THEN a ELSE b

ErrorMessage_MessageFirst(body) ==
  IF body.kind = "object"
  THEN Or(Get(body.obj, "message"), Or(Get(body.obj, "error"), UnknownError))
  ELSE Or(body.text, UnknownError)

(* lines 106-110: the message of an ask response with status >= 400 *)
ErrorMessage(body) ==
  IF body.kind = "object"
  THEN Or(Get(body.obj, "error"), Or(Get(body.obj, "message"), UnknownError))
  ELSE Or(body.text, UnknownError)

(* line 112 and the first data.get: does the body yield a dict? *)
DecodesToDict(body) == body.kind = "object"

IsProcessing(d) == Get(d, "status") = "processing"

AckMessage(d) == GetOr(d, "message", DefaultAck)

HasJobId_Always(d) == TRUE

(* lines 132-133: not job_id *)
HasJobId(d) == Truthy(Get(d, "jobId"))

PollVerdict_CapFirst(n, res) ==
  IF res.kind = "failed" THEN "raise"
  ELSE IF res.status # 200 \/ n >= MaxAttempts THEN "continue"
  ELSE IF ~DecodesToDict(res.body) THEN "raise"
  ELSE IF Get(res.body.obj, "status") = "done" THEN "done"
  ELSE IF Get(res.body.obj, "status") = "error" THEN "error"
  ELSE "continue"

PollVerdict_ErrorIgnored(n, res) ==
  IF res.kind = "failed" THEN "raise"
  ELSE IF res.status # 200 THEN "continue"
  ELSE IF ~DecodesToDict(res.body) THEN "raise"
  ELSE IF Get(res.body.obj, "status") = "done" THEN "done"
  ELSE "continue"

(* lines 138-150: what the n-th poll's outcome does to the loop *)
PollVerdict(n, res) ==
  IF res.kind = "failed" THEN "raise"
  ELSE IF res.status # 200 THEN "continue"
  ELSE IF ~DecodesToDict(res.body) THEN "raise"
  ELSE IF Get(res.body.obj, "status") = "done" THEN "done"
  ELSE IF Get(res.body.obj, "status") = "error" THEN "error"
  ELSE "continue"

Count(ev, e) == Cardinality({i \in DOMAIN ev : ev[i] = e})

SourcesMessage_ConfigTopic(payload) ==
  [topic |-> "inbox.tts.config", type |-> "sources", sources |-> payload]

(* lines 118-121: the message handed to publish_data *)
SourcesMessage(payload) ==
  [topic |-> SOURCES_TOPIC, type |-> "sources", sources |-> payload]

(* ------------------------------- state --------------------------------- *)

Init ==
  /\ pc = "Idle"
  /\ question = <<>>
  /\ events = <<>>
  /\ response = NoResponse
  /\ spoken = <<>>
  /\ sayInterrupted = FALSE
  /\ attempt = 0
  /\ waited = 0
  /\ job_res = NoResponse
  /\ pubState = "none"
  /\ pubPayload = <<>>
  /\ published = <<>>
  /\ warnings = 0
  /\ returned = <<>>
  /\ tts_model = OPENAI_TTS_MODEL
  /\ tts_voice = OPENAI_TTS_VOICE
  /\ tts = TtsEngine(OPENAI_TTS_MODEL, OPENAI_TTS_VOICE)
  /\ rebuilds = 0
  /\ infoLogs = 0
  /\ cfgWarnings = 0
  /\ packet = NoPacket
  /\ handled = 0
  /\ handledAt = "none"
  /\ dataOutcome = "none"

(* return v *)
Return(ev, v) ==
  /\ pc' = "Responded"
  /\ returned' = Append(returned, v)
  /\ events' = Append(ev, "return")

(* an exception leaves ask_inbox *)
Raise(ev) ==
  /\ pc' = "Raised"
  /\ returned' = returned
  /\ events' = Append(ev, "raise")

PublishSources_Background(ev, payload, at, answer) ==
  /\ pubState' = "inflight"
  /\ pubPayload' = payload
  /\ Return(ev, answer)

PublishSources_Detached(ev, payload, at, answer) ==
  /\ pubState' = "inflight"
  /\ pubPayload' = payload
  /\ Return(Append(ev, "publish"), answer)

(* lines 146-148, 155-157: await publish_sources(sources), then return *)
PublishSources(ev, payload, at, answer) ==
  /\ pubState' = "inflight"
  /\ pubPayload' = payload
  /\ pc' = at
  /\ events' = Append(ev, "publish")
  /\ returned' = returned

(* lines 97-103: the call, up to the await of client.post *)
StartWith(qs) ==
  /\ pc = "Idle"
  /\ \E q \in qs :
       /\ question' = q
       /\ IF IsSmallTalk(q)
          THEN Return(events, <<GreetingMsg>>)
          ELSE /\ pc' = "Asking"
               /\ events' = Append(events, "ask")
               /\ returned' = returned
  /\ UNCHANGED <<response, spoken, sayInterrupted, attempt, waited, job_res,
                 pubState, pubPayload, published, warnings>>
  /\ UNCHANGED cfgVars

Start == StartWith(Questions)

(* lines 102-157 up to the next await: the post returns or raises *)
AskResponseWith(outcomes) ==
  /\ pc = "Asking"
  /\ \E o \in outcomes :
       /\ response' = o
       /\ IF o.kind = "failed"
          THEN Raise(events) /\ UNCHANGED <<spoken, pubState, pubPayload>>
          ELSE IF IsErrorStatus(o.status)
          THEN /\ Return(events, <<UnreachablePrefix, ErrorMessage(o.body)>>)
               /\ UNCHANGED <<spoken, pubState, pubPayload>>
          ELSE IF ~DecodesToDict(o.body)
          THEN Raise(events) /\ UNCHANGED <<spoken, pubState, pubPayload>>
          ELSE IF IsProcessing(o.body.obj)
          THEN /\ spoken' = Append(spoken, AckMessage(o.body.obj))
               /\ pc' = "Speaking"
               /\ events' = Append(events, "say")
               /\ UNCHANGED <<returned, pubState, pubPayload>>
          ELSE IF SourcesOf(o.body.obj) # <<>>
          THEN /\ PublishSources(events, SourcesOf(o.body.obj), "PublishingImmediate",
                                 <<GetOr(o.body.obj, "answer", NoAnswerMsg)>>)
               /\ UNCHANGED spoken
          ELSE /\ Return(events, <<GetOr(o.body.obj, "answer", NoAnswerMsg)>>)
               /\ UNCHANGED <<spoken, pubState, pubPayload>>
  /\ UNCHANGED <<question, sayInterrupted, attempt, waited, job_res,
                 published, warnings>>
  /\ UNCHANGED cfgVars

AskResponse == AskResponseWith(AskOutcomes)

(* lines 127-137: say returns (finished or interrupted); job id; first sleep *)
SayDone ==
  /\ pc = "Speaking"
  /\ \E interrupted \in BOOLEAN : sayInterrupted' = interrupted
  /\ IF ~HasJobId(response.body.obj)
     THEN Return(events, <<NoJobMsg>>) /\ UNCHANGED attempt
     ELSE /\ attempt' = 1
          /\ pc' = "Sleeping"
          /\ UNCHANGED <<events, returned>>
  /\ UNCHANGED <<question, response, spoken, waited, job_res,
                 pubState, pubPayload, published, warnings>>
  /\ UNCHANGED cfgVars

(* lines 137-140: the sleep elapses, the job request is sent *)
SleepDone ==
  /\ pc = "Sleeping"
  /\ waited' = waited + PollInterval
  /\ events' = events \o <<"sleep", "poll">>
  /\ pc' = "Polling"
  /\ UNCHANGED <<question, response, spoken, sayInterrupted, attempt, job_res,
                 pubState, pubPayload, published, warnings, returned>>
  /\ UNCHANGED cfgVars

(* the loop goes round, or range(45) is exhausted: line 152 *)
Continue ==
  IF attempt < MaxAttempts
  THEN /\ attempt' = attempt + 1
       /\ pc' = "Sleeping"
       /\ UNCHANGED <<events, returned>>
  ELSE /\ Return(events, <<TimeoutMsg>>)
       /\ UNCHANGED attempt

(* lines 138-152 up to the next await: the job request returns or raises *)
PollResponseWith(outcomes) ==
  /\ pc = "Polling"
  /\ \E o \in outcomes :
       /\ job_res' = o
       /\ LET verdict == PollVerdict(attempt, o)
              job_data == o.body.obj
          IN  CASE verdict = "raise" ->
                     Raise(events) /\ UNCHANGED <<attempt, pubState, pubPayload>>
                [] verdict = "continue" ->
                     Continue /\ UNCHANGED <<pubState, pubPayload>>
                [] verdict = "done" ->
                     IF SourcesOf(job_data) # <<>>
                     THEN /\ PublishSources(events, SourcesOf(job_data), "PublishingJob",
                                            <<GetOr(job_data, "answer", "")>>)
                          /\ UNCHANGED attempt
                     ELSE /\ Return(events, <<GetOr(job_data, "answer", "")>>)
                          /\ UNCHANGED <<attempt, pubState, pubPayload>>
                [] verdict = "error" ->
                     /\ Return(events, <<JobErrorPrefix,
                                         GetOr(job_data, "error", UnknownJobError)>>)
                     /\ UNCHANGED <<attempt, pubState, pubPayload>>
  /\ UNCHANGED <<question, response, spoken, sayInterrupted, waited,
                 published, warnings>>
  /\ UNCHANGED cfgVars

PollResponse == PollResponseWith(PollOutcomes)

PublishDone_FailureRaises ==
  /\ pubState = "inflight"
  /\ \E ok \in BOOLEAN :
       IF ok
       THEN /\ pubState' = "sent"
            /\ published' = Append(published, SourcesMessage(pubPayload))
            /\ UNCHANGED warnings
            /\ IF pc = "PublishingImmediate"
               THEN Return(events, <<GetOr(response.body.obj, "answer", NoAnswerMsg)>>)
               ELSE IF pc = "PublishingJob"
               THEN Return(events, <<GetOr(job_res.body.obj, "answer", "")>>)
               ELSE UNCHANGED <<pc, events, returned>>
       ELSE /\ pubState' = "failed"
            /\ Raise(events)
            /\ UNCHANGED <<published, warnings>>
  /\ UNCHANGED <<question, response, spoken, sayInterrupted, attempt, waited,
                 job_res, pubPayload>>
  /\ UNCHANGED cfgVars

(* lines 116-123, then 148 or 157: publish_data returns or raises *)
PublishDone ==
  /\ pubState = "inflight"
  /\ \E ok \in BOOLEAN :
       IF ok
       THEN /\ pubState' = "sent"
            /\ published' = Append(published, SourcesMessage(pubPayload))
            /\ UNCHANGED warnings
       ELSE /\ pubState' = "failed"
            /\ warnings' = warnings + 1
            /\ UNCHANGED published
  /\ IF pc = "PublishingImmediate"
     THEN Return(events, <<GetOr(response.body.obj, "answer", NoAnswerMsg)>>)
     ELSE IF pc = "PublishingJob"
     THEN Return(events, <<GetOr(job_res.body.obj, "answer", "")>>)
     ELSE UNCHANGED <<pc, events, returned>>
  /\ UNCHANGED <<question, response, spoken, sayInterrupted, attempt, waited,
                 job_res, pubPayload>>
  /\ UNCHANGED cfgVars

UpdateTtsConfig_AlwaysRebuild(model, voice) ==
  /\ tts_model' = Or(model, tts_model)
  /\ tts_voice' = Or(voice, tts_voice)
  /\ tts' = TtsEngine(Or(model, tts_model), Or(voice, tts_voice))
  /\ rebuilds' = rebuilds + 1
  /\ infoLogs' = infoLogs + 1

UpdateTtsConfig_Torn(model, voice) ==
  LET next_model == Or(model, tts_model)
      next_voice == Or(voice, tts_voice)
  IN  IF next_model = tts_model /\ next_voice = tts_voice
      THEN UNCHANGED <<tts_model, tts_voice, tts, rebuilds, infoLogs>>
      ELSE /\ tts_model' = next_model
           /\ tts_voice' = IF next_model = tts_model THEN next_voice ELSE tts_voice
           /\ tts' = TtsEngine(next_model, next_voice)
           /\ rebuilds' = rebuilds + 1
           /\ infoLogs' = infoLogs + 1

(* lines 77-92 *)
UpdateTtsConfig(model, voice) ==
  LET next_model == Or(model, tts_model)
      next_voice == Or(voice, tts_voice)
  IN  IF next_model = tts_model /\ next_voice = tts_voice
      THEN UNCHANGED <<tts_model, tts_voice, tts, rebuilds, infoLogs>>
      ELSE /\ tts_model' = next_model
           /\ tts_voice' = next_voice
           /\ tts' = TtsEngine(next_model, next_voice)
           /\ rebuilds' = rebuilds + 1
           /\ infoLogs' = infoLogs + 1

(* lines 191-209: the data_received handler, run to its end by the event
   emitter; it has no await *)
OnDataWith(packets) ==
  /\ handled < MaxPackets
  /\ \E p \in packets :
       /\ packet' = p
       /\ handled' = handled + 1
       /\ handledAt' = pc
       /\ IF p.topic # TTS_CONFIG_TOPIC
          THEN /\ dataOutcome' = "ignored_topic"
               /\ UNCHANGED <<tts_model, tts_voice, tts, rebuilds, infoLogs, cfgWarnings>>
          ELSE IF p.payload.kind \in {"not_utf8", "not_json"}
          THEN /\ dataOutcome' = "parse_failed"
               /\ cfgWarnings' = cfgWarnings + 1
               /\ UNCHANGED <<tts_model, tts_voice, tts, rebuilds, infoLogs>>
          ELSE IF p.payload.kind # "object"
          THEN /\ dataOutcome' = "raised"
               /\ UNCHANGED <<tts_model, tts_voice, tts, rebuilds, infoLogs, cfgWarnings>>
          ELSE IF Get(p.payload, "type") # "tts_config"
          THEN /\ dataOutcome' = "ignored_type"
               /\ UNCHANGED <<tts_model, tts_voice, tts, rebuilds, infoLogs, cfgWarnings>>
          ELSE /\ dataOutcome' = "updated"
               /\ UpdateTtsConfig(Get(p.payload, "model"), Get(p.payload, "voice"))
               /\ UNCHANGED cfgWarnings
  /\ UNCHANGED turnVars

OnData == OnDataWith(Packets)

Next ==
  \/ Start
  \/ AskResponse
  \/ SayDone
  \/ SleepDone
  \/ PollResponse
  \/ PublishDone

Spec == Init /\ [][Next]_vars

(* the control path alone: packets arriving at the data_received handler *)
NextCfg == OnData

SpecCfg == Init /\ [][NextCfg]_vars

(* a turn in flight with control packets handled between its awaits *)
SomeQuestions == {<<"h">>, <<"h", "I">>}

SomeAskOutcomes ==
  {o \in AskOutcomes :
     \/ o.kind = "failed"
     \/ o.status = 404 /\ o.body.text = "{error}"
     \/ o.status = 200 /\ o.body.text \in {"{answer,sources}", "{processing,jobId}",
                                            "{processing}"}}

SomePollOutcomes ==
  {o \in PollOutcomes :
     \/ o.kind = "failed"
     \/ o.status = 500 /\ o.body.text = "{pending}"
     \/ o.status = 200 /\ o.body.text \in {"{pending}", "{done,answer,sources}",
                                            "{error,text}"}}

SomePackets ==
  {Packet(TTS_CONFIG_TOPIC, ConfigPayload({"type", "model", "voice"}, "tts_config",
                                          OtherModel, OtherVoice)),
   Packet(TTS_CONFIG_TOPIC, ConfigPayload({"type", "voice"}, "tts_config",
                                          "", OtherVoice)),
   Packet(TTS_CONFIG_TOPIC, ConfigPayload({"type", "model", "voice"}, "tts_config",
                                          OPENAI_TTS_MODEL, OPENAI_TTS_VOICE)),
   Packet(TTS_CONFIG_TOPIC, RawPayload("not_json"))}

StartSome == StartWith(SomeQuestions)

AskResponseSome == AskResponseWith(SomeAskOutcomes)

PollResponseSome == PollResponseWith(SomePollOutcomes)

OnDataSome == OnDataWith(SomePackets)

NextTurnCfg ==
  \/ StartSome
  \/ AskResponseSome
  \/ SayDone
  \/ SleepDone
  \/ PollResponseSome
  \/ PublishDone
  \/ OnDataSome

SpecTurnCfg == Init /\ [][NextTurnCfg]_vars

TypeOK ==
  /\ pc \in {"Idle", "Asking", "Speaking", "Sleeping", "Polling",
             "PublishingImmediate", "PublishingJob", "Responded", "Raised"}
  /\ question \in Questions
  /\ attempt \in 0..MaxAttempts
  /\ Len(returned) <= 1

(* ------------------------- vocabulary of the claims -------------------- *)

Asks == Count(events, "ask")

Polls == Count(events, "poll")

Sleeps == Count(events, "sleep")

TurnEnded == pc \in {"Responded", "Raised"}

NormalizedIsSmallTalk == Lower(Strip(question)) \in SMALL_TALK

AskAnswered == response.kind = "http"

AskErrorStatus == AskAnswered /\ response.status >= 400

JobObserved(status) ==
  /\ job_res.kind = "http"
  /\ job_res.status = 200
  /\ job_res.body.kind = "object"
  /\ "status" \in job_res.body.obj.keys
  /\ job_res.body.obj.status = status

JobNonTerminal ==
  /\ job_res.kind = "http"
  /\ job_res.status # 200 \/ JobObserved("pending")

(* C1: whatever status and body the backend answers the ask and the polls
   with, the turn ends with exactly one string yielded to the caller; no path
   ends the turn without one. *)
C1_EveryTurnYieldsOneString ==
  (TurnEnded /\ response.kind # "failed" /\ job_res.kind # "failed") =>
     (pc = "Responded" /\ Len(returned) = 1)

(* C2: a question whose trimmed, lowercased text is in SMALL_TALK gets the
   fixed greeting-guidance string, with no ask request and no job poll. *)
C2_SmallTalkShortCircuits ==
  (pc # "Idle" /\ NormalizedIsSmallTalk) =>
     /\ pc = "Responded"
     /\ returned = << <<GreetingMsg>> >>
     /\ Asks = 0
     /\ Polls = 0
     /\ response = NoResponse
     /\ job_res = NoResponse

C2_Witness ==
  /\ pc = "Responded"
  /\ question = <<" ", "h", "I">>
  /\ returned = << <<GreetingMsg>> >>

(* C3: a question that is not small talk issues exactly one ask call, never a
   second one, and every poll comes after that ask has been answered. *)
C3_OneAskBeforeAnyPoll ==
  /\ Asks <= 1
  /\ (pc # "Idle" /\ ~NormalizedIsSmallTalk) => Asks = 1
  /\ \A i \in DOMAIN events :
        events[i] = "poll" =>
           /\ \E j \in 1..(i - 1) : events[j] = "ask"
           /\ AskAnswered

C3_Witness ==
  /\ ~NormalizedIsSmallTalk
  /\ Asks = 1
  /\ Polls >= 2

(* C4: no turn issues more than 45 polls; the timeout message is returned only
   after exactly 45 polls, and it is what a turn returns whose 45th poll is
   still a non-200 response or a pending snapshot. *)
C4_TimeoutAfter45Polls ==
  /\ Polls <= 45
  /\ (pc = "Responded" /\ returned = << <<TimeoutMsg>> >>) => Polls = 45
  /\ (TurnEnded /\ Polls = 45 /\ JobNonTerminal) =>
        (pc = "Responded" /\ returned = << <<TimeoutMsg>> >>)

C4_Witness ==
  /\ pc = "Responded"
  /\ returned = << <<TimeoutMsg>> >>
  /\ Polls = 45
  /\ JobObserved("pending")

(* C5: when the k-th poll (k in 1..45) is the first to report done, the turn
   returns that job's answer after exactly k polls, each preceded by one wait
   of 2 units. *)
C5_DoneOnKthPoll ==
  (pc = "Responded" /\ JobObserved("done")) =>
     /\ returned = << <<GetOr(job_res.body.obj, "answer", "")>> >>
     /\ attempt \in 1..45
     /\ Polls = attempt
     /\ Sleeps = Polls
     /\ waited = 2 * Polls
     /\ \A i \in DOMAIN events :
           events[i] = "poll" => (i > 1 /\ events[i - 1] = "sleep")

C5_Witness ==
  /\ pc = "Responded"
  /\ JobObserved("done")
  /\ attempt = 45
  /\ Polls = 45
  /\ returned = << <<"Done.">> >>

(* C6: once a poll with status 200 has reported done or error, the turn
   responds (the job's answer, or 'There was an error: ' and the job's error
   text or 'unknown') and issues no further poll. *)
C6_TerminalOnceObserved ==
  /\ [](JobObserved("done") =>
          /\ pc \in {"PublishingJob", "Responded"}
          /\ pc = "Responded" =>
                returned = << <<GetOr(job_res.body.obj, "answer", "")>> >>)
  /\ [](JobObserved("error") =>
          /\ pc = "Responded"
          /\ returned = << <<JobErrorPrefix,
                             IF "error" \in job_res.body.obj.keys
                             THEN job_res.body.obj.error ELSE "unknown">> >>)
  /\ [][(JobObserved("done") \/ JobObserved("error")) => Polls' = Polls]_vars

C6_Witness ==
  /\ pc = "Responded"
  /\ JobObserved("error")
  /\ attempt = 2
  /\ Polls = 2
  /\ returned = << <<JobErrorPrefix, "unknown">> >>

(* C7: a processing response without a jobId ends the turn with "I couldn't
   start the background job.", with no poll and no second ask. *)
C7_ProcessingWithoutJobId ==
  ( /\ pc \notin {"Idle", "Asking", "Speaking"}
    /\ AskAnswered
    /\ response.status < 400
    /\ response.body.kind = "object"
    /\ "status" \in response.body.obj.keys
    /\ response.body.obj.status = "processing"
    /\ ("jobId" \notin response.body.obj.keys \/ response.body.obj.jobId = "") )
  => /\ pc = "Responded"
     /\ returned = << <<"I couldn't start the background job.">> >>
     /\ Polls = 0
     /\ Asks = 1

C7_Witness ==
  /\ pc = "Responded"
  /\ returned = << <<NoJobMsg>> >>
  /\ "jobId" \notin response.body.obj.keys
  /\ Len(spoken) = 1

(* The precedence as the claim words it: error field, else message field,
   else raw body text, else "Unknown error". *)
ClaimedErrorMessage(b) ==
  IF b.kind = "object" /\ "error" \in b.obj.keys /\ b.obj.error # ""
  THEN b.obj.error
  ELSE IF b.kind = "object" /\ "message" \in b.obj.keys /\ b.obj.message # ""
  THEN b.obj.message
  ELSE IF b.text # "" THEN b.text
  ELSE "Unknown error"

(* The precedence of the code: a body that decodes to an object gives its
   error field, else its message field, else "Unknown error"; any other body
   gives its raw text, else "Unknown error". *)
AmendedErrorMessage(b) ==
  IF b.kind = "object"
  THEN IF "error" \in b.obj.keys /\ b.obj.error # "" THEN b.obj.error
       ELSE IF "message" \in b.obj.keys /\ b.obj.message # "" THEN b.obj.message
       ELSE "Unknown error"
  ELSE IF b.text # "" THEN b.text ELSE "Unknown error"

NothingAfterAskError ==
  /\ Polls = 0
  /\ spoken = <<>>
  /\ pubState = "none"
  /\ published = <<>>

(* C8 as stated: an ask response with status >= 400 returns the prefix and the
   message chosen by error field, else message field, else raw body text, else
   "Unknown error"; nothing raises and no poll, speech or publish follows. *)
C8_ClaimedPrecedence ==
  (AskErrorStatus /\ pc # "Asking") =>
     /\ pc = "Responded"
     /\ returned = << <<UnreachablePrefix, ClaimedErrorMessage(response.body)>> >>
     /\ NothingAfterAskError

(* C8 amended: an ask response with status >= 400 returns the prefix and, for
   a body that decodes to a JSON object, its non-empty error field, else its
   non-empty message field, else "Unknown error"; for any other body the raw
   text, else "Unknown error"; nothing raises and no poll, speech or publish
   follows. *)
C8_ErrorReply ==
  (AskErrorStatus /\ pc # "Asking") =>
     /\ pc = "Responded"
     /\ returned = << <<"I couldn't reach the inbox service: ",
                        AmendedErrorMessage(response.body)>> >>
     /\ NothingAfterAskError

C8_Witness ==
  /\ pc = "Responded"
  /\ response.kind = "http"
  /\ response.status = 404
  /\ response.body.text = "{error}"
  /\ returned = << <<UnreachablePrefix, "not found">> >>

(* C9: a failed or timed-out ask request, or an ask response whose body does
   not decode, still ends the turn with a string returned to the caller. *)
C9_AskFailureDegrades ==
  ( /\ TurnEnded
    /\ \/ response.kind = "failed"
       \/ (AskAnswered /\ response.body.kind = "invalid") )
  => (pc = "Responded" /\ Len(returned) = 1)

(* C10: the publish of sources is over before the answer is returned; nothing
   is published once the turn has responded. *)
C10_PublishBeforeReturn ==
  /\ [](pc = "Responded" => pubState # "inflight")
  /\ [][pc = "Responded" => published' = published]_vars

C10_Witness ==
  /\ pc = "Responded"
  /\ JobObserved("done")
  /\ published = <<SourcesMessage(<<"m1">>)>>
  /\ returned = << <<"Done.">> >>

ImmediatePath ==
  /\ AskAnswered
  /\ response.status < 400
  /\ response.body.kind = "object"
  /\ ~("status" \in response.body.obj.keys /\ response.body.obj.status = "processing")

ImmediateSources ==
  IF "sources" \in response.body.obj.keys THEN response.body.obj.sources ELSE <<>>

ImmediateAnswer ==
  IF "answer" \in response.body.obj.keys
  THEN response.body.obj.answer ELSE "No answer returned."

Publishes == Count(events, "publish")

(* C11: an immediate response with non-empty sources returns the response's
   answer after exactly one publish, which carries those sources on the
   sources topic; with empty or absent sources nothing is published. *)
C11_ImmediateAnswerAndSources ==
  (ImmediatePath /\ pc = "Responded") =>
     /\ returned = << <<ImmediateAnswer>> >>
     /\ IF ImmediateSources # <<>>
        THEN /\ Publishes = 1
             /\ pubPayload = ImmediateSources
             /\ pubState \in {"sent", "failed"}
             /\ pubState = "sent" =>
                   published = << [topic |-> "inbox.sources", type |-> "sources",
                                   sources |-> ImmediateSources] >>
             /\ pubState = "failed" => published = <<>>
        ELSE /\ Publishes = 0
             /\ pubState = "none"
             /\ published = <<>>

C11_Witness ==
  /\ pc = "Responded"
  /\ ImmediatePath
  /\ returned = << <<"You have 3 unread emails.">> >>
  /\ published = << [topic |-> "inbox.sources", type |-> "sources",
                     sources |-> <<"m1">>] >>

(* C12: a publish that fails is attempted once, logged, and leaves the turn
   responding with the answer it returns when the publish succeeds; nothing
   reaches the caller as an exception. *)
C12_PublishFailureIsHarmless ==
  (pubState \in {"sent", "failed"}) =>
     /\ pc = "Responded"
     /\ Publishes = 1
     /\ returned = << <<IF job_res.kind = "none"
                        THEN ImmediateAnswer
                        ELSE IF "answer" \in job_res.body.obj.keys
                             THEN job_res.body.obj.answer ELSE "">> >>
     /\ pubState = "failed" => (warnings = 1 /\ published = <<>>)
     /\ pubState = "sent" => (warnings = 0 /\ Len(published) = 1)

C12_Witness ==
  /\ pubState = "failed"
  /\ pc = "Responded"
  /\ warnings = 1
  /\ returned = << <<"You have 3 unread emails.">> >>

PollFailed ==
  \/ job_res.kind = "failed"
  \/ (job_res.kind = "http" /\ job_res.status = 200 /\ job_res.body.kind = "invalid")

TimedOut ==
  /\ pc = "Responded"
  /\ Polls = 45
  /\ returned = << <<TimeoutMsg>> >>

(* C15: a poll that raises, times out or answers 200 with an undecodable body
   costs one attempt only: the loop goes on to the next attempt (or to the
   timeout after the 45th) and no exception reaches the caller. *)
C15_PollFailureSwallowed ==
  PollFailed => (pc \in {"Sleeping", "Polling"} \/ TimedOut)

ProcessingPath ==
  /\ AskAnswered
  /\ response.status < 400
  /\ response.body.kind = "object"
  /\ "status" \in response.body.obj.keys
  /\ response.body.obj.status = "processing"

(* C17: on the processing path the acknowledgment is spoken exactly once and
   before the first poll, and whether it finishes or is interrupted the
   polling loop runs and ends only on done, on error or on the 45-attempt
   cap. *)
C17_AckThenPollToTheEnd ==
  /\ Count(events, "say") <= 1
  /\ ProcessingPath =>
        /\ Count(events, "say") = 1
        /\ spoken = << IF "message" \in response.body.obj.keys
                       THEN response.body.obj.message
                       ELSE "This may take a minute." >>
  /\ \A i \in DOMAIN events :
        events[i] = "poll" => \E j \in 1..(i - 1) : events[j] = "say"
  /\ ( /\ ProcessingPath
       /\ "jobId" \in response.body.obj.keys
       /\ response.body.obj.jobId # ""
       /\ TurnEnded )
     => (JobObserved("done") \/ JobObserved("error") \/ TimedOut)

(* C18 as stated: on the immediate path the answer is returned without
   waiting for the publish, so a publish still in flight never keeps the turn
   from having responded. *)
C18_ReturnDoesNotWaitForPublish ==
  (ImmediatePath /\ pubState = "inflight") => pc = "Responded"

(* C18 amended: on the immediate path with non-empty sources the publish is
   awaited: while it is in flight the turn has returned nothing, and the
   answer is returned only once the publish is over, delivered or failed. *)
C18_ReturnWaitsForPublish ==
  /\ (ImmediatePath /\ pubState = "inflight") =>
        (pc = "PublishingImmediate" /\ returned = <<>>)
  /\ (ImmediatePath /\ ImmediateSources # <<>> /\ pc = "Responded") =>
        pubState \in {"sent", "failed"}

C18_Witness ==
  /\ ImmediatePath
  /\ ImmediateSources = <<"m1">>
  /\ pubState = "inflight"
  /\ pc = "PublishingImmediate"
  /\ returned = <<>>

PollNot200 == job_res.kind = "http" /\ job_res.status # 200

(* C19 as stated: an ask response with status >= 400 never enters the
   processing or immediate path whatever its body, and a poll response with a
   status other than 200 never ends the turn whatever its body. *)
C19_StatusDecidesNeverEnds ==
  /\ (AskErrorStatus /\ pc # "Asking") =>
        /\ pc = "Responded"
        /\ Len(returned) = 1 /\ Len(returned[1]) = 2
        /\ returned[1][1] = "I couldn't reach the inbox service: "
        /\ NothingAfterAskError
  /\ PollNot200 => ~TurnEnded

(* C19 amended: an ask response with status >= 400 never enters the
   processing or immediate path whatever its body, and a poll response with a
   status other than 200 is never taken as terminal whatever its body: the
   loop goes on to the next attempt, or the turn ends with the timeout
   message when that poll was the 45th. *)
C19_StatusDecidesBeforeBody ==
  /\ (AskErrorStatus /\ pc # "Asking") =>
        /\ pc = "Responded"
        /\ Len(returned) = 1 /\ Len(returned[1]) = 2
        /\ returned[1][1] = "I couldn't reach the inbox service: "
        /\ NothingAfterAskError
  /\ PollNot200 =>
        /\ pc \in {"Sleeping", "Polling"} \/ TimedOut
        /\ pubState = "none"
        /\ published = <<>>

C19_Witness ==
  /\ PollNot200
  /\ job_res.body.text = "{done,answer,sources}"
  /\ TimedOut
  /\ attempt = 45

(* model or self.tts_model, voice or self.tts_voice, for the packet's fields *)
RequestedModel(p, current) ==
  IF "model" \in p.payload.keys /\ p.payload.model # "" THEN p.payload.model ELSE current

RequestedVoice(p, current) ==
  IF "voice" \in p.payload.keys /\ p.payload.voice # "" THEN p.payload.voice ELSE current

(* C13: an update whose resulting (model, voice) pair equals the current one
   changes nothing and logs nothing; any other update installs the resulting
   pair, rebuilds the engine once and logs once, so that an update giving
   only a different voice changes the voice and keeps the model. *)
C13_UpdateOnlyOnChange ==
  [][(handled' = handled + 1 /\ dataOutcome' = "updated") =>
       LET nm == RequestedModel(packet', tts_model)
           nv == RequestedVoice(packet', tts_voice)
       IN  /\ (nm = tts_model /\ nv = tts_voice) =>
                 UNCHANGED <<tts_model, tts_voice, tts, rebuilds, infoLogs>>
           /\ (nm # tts_model \/ nv # tts_voice) =>
                 /\ tts_model' = nm
                 /\ tts_voice' = nv
                 /\ tts' = [model |-> nm, voice |-> nv]
                 /\ rebuilds' = rebuilds + 1
                 /\ infoLogs' = infoLogs + 1
           /\ ("model" \notin packet'.payload.keys /\ nv # tts_voice) =>
                 /\ tts_model' = tts_model
                 /\ tts_voice' = packet'.payload.voice
                 /\ rebuilds' = rebuilds + 1]_vars

C13_Witness ==
  /\ dataOutcome = "updated"
  /\ handled = 1
  /\ packet.payload.keys = {"type", "voice"}
  /\ tts_voice = OtherVoice
  /\ tts_model = OPENAI_TTS_MODEL
  /\ rebuilds = 1
  /\ infoLogs = 1

(* C14: whatever the packet's topic and payload, the handler does not raise
   into the event dispatcher, and update_tts_config is reached only for a
   packet on the tts-config topic whose payload is JSON of type
   "tts_config". *)
C14_HandlerNeverRaises ==
  /\ dataOutcome # "raised"
  /\ dataOutcome = "updated" =>
        /\ packet.topic = "inbox.tts.config"
        /\ packet.payload.kind = "object"
        /\ "type" \in packet.payload.keys
        /\ packet.payload.type = "tts_config"
  /\ dataOutcome \in {"none", "ignored_topic", "parse_failed", "ignored_type"} =>
        (handled = 1 => (tts_model = OPENAI_TTS_MODEL /\ tts_voice = OPENAI_TTS_VOICE))

OldOrNewPair ==
  \/ (tts_model' = tts_model /\ tts_voice' = tts_voice)
  \/ /\ tts_model' = RequestedModel(packet', tts_model)
     /\ tts_voice' = RequestedVoice(packet', tts_voice)

(* C16: with control packets handled between the awaits of a turn in flight,
   the (model, voice) pair in every state is the pair before the last update
   or the pair that update asked for, never a mix of the two, and the engine
   is the one built from that pair. *)
C16_NoTornConfig ==
  /\ [](tts = [model |-> tts_model, voice |-> tts_voice])
  /\ [][OldOrNewPair]_vars

C16_Witness ==
  /\ pc = "Polling"
  /\ handledAt = "Sleeping"
  /\ dataOutcome = "updated"
  /\ packet.payload.keys = {"type", "model", "voice"}
  /\ tts_model = OtherModel
  /\ tts_voice = OtherVoice
  /\ tts = TtsEngine(OtherModel, OtherVoice)

====
